---- MODULE Spec2Model ----
(***************************************************************************)
(* A model of python-keystoneclient's command line shell                   *)
(* (keystoneclient/shell.py), of the authentication plugin base            *)
(* (keystoneclient/auth/base.py) and of the client round trip exercised by *)
(* tests/test_client.py.                                                   *)
(***************************************************************************)
EXTENDS Integers, Sequences, FiniteSets, TLC

\* Python's None.  Every optional value of the model is a string, and None is
\* a string no input ever takes.
None == "<None>"

\* Python truthiness of an optional string: None and '' are false.
Truthy(x) == x # None /\ x # ""

(***************************************************************************)
(* keystoneclient/shell.py                                                 *)
(***************************************************************************)

\* The global options main() reads, each with the environment variable its
\* default comes from (get_base_parser).
EnvVarOf ==
  [ username |-> <<"OS_USERNAME">>,
    password |-> <<"OS_PASSWORD">>,
    auth_url |-> <<"OS_AUTH_URL">>,
    token    |-> <<"SERVICE_TOKEN">>,
    endpoint |-> <<"SERVICE_ENDPOINT">> ]

GlobalOptions == DOMAIN EnvVarOf

EnvVars == { EnvVarOf[o][1] : o \in GlobalOptions }

\* Values a flag is given on the command line (None: the flag is absent) and
\* values os.environ.get(v, None) gives for an environment variable (None: the
\* variable is unset).
FlagValues == { None, "", "flag" }
EnvValues  == { None, "env" }

\* env(*vars, default=''): the first variable of vars whose value is truthy,
\* or the default.
RECURSIVE env(_, _, _)
env(environ, vars, default) ==
  IF vars = <<>> THEN default
  ELSE IF Truthy(environ[Head(vars)]) THEN environ[Head(vars)]
       ELSE env(environ, Tail(vars), default)

\* The subcommands _find_actions registers, by the module they come from:
\* shell_v2_0, shell_generic and the shell itself (do_help).
V2Commands      == { "user-list" }
GenericCommands == { "discover" }
ShellCommands   == { "help" }
Subcommands     == V2Commands \cup GenericCommands \cup ShellCommands

\* args.func of a subcommand: attr[3:].replace('_', '-') read backwards.
CallbackOf(command) ==
  CASE command = "user-list" -> "do_user_list"
    [] command = "discover"  -> "do_discover"
    [] command = "help"      -> "do_help"

\* utils.isunauthenticated(f): the callback carries the unauthenticated mark.
isunauthenticated(func) == func \in { "do_discover" }

\* What a command line may name as its subcommand: a registered one, an
\* unknown one, or none at all.
ArgvCommands == Subcommands \cup { "bogus", None }
\* The optional <subcommand> argument of help.
HelpTopics == Subcommands \cup { "bogus", None }

Argvs ==
  { a \in [ help : BOOLEAN, debug : BOOLEAN,
            username : FlagValues, password : FlagValues,
            auth_url : FlagValues, token : FlagValues,
            endpoint : FlagValues,
            command : ArgvCommands, topic : HelpTopics ] :
      a.command # "help" => a.topic = None }

Unparsed ==
  [ parsed |-> FALSE, help |-> FALSE, debug |-> FALSE,
    username |-> None, password |-> None, auth_url |-> None,
    token |-> None, endpoint |-> None, func |-> None, command |-> None ]

\* An argparse namespace of the global arguments: a flag's value when the flag
\* is given, the default env(...) computed by get_base_parser otherwise.
OptionValue(a, environ, o) ==
  IF a[o] # None THEN a[o] ELSE env(environ, EnvVarOf[o], "")

\* parser.parse_known_args(argv) on the base parser: the global arguments
\* only; the subcommand and its arguments are left over.
parse_known_args(a, environ) ==
  [ parsed |-> TRUE, help |-> a.help, debug |-> a.debug,
    username |-> OptionValue(a, environ, "username"),
    password |-> OptionValue(a, environ, "password"),
    auth_url |-> OptionValue(a, environ, "auth_url"),
    token    |-> OptionValue(a, environ, "token"),
    endpoint |-> OptionValue(a, environ, "endpoint"),
    func |-> None, command |-> None ]

\* subcommand_parser.parse_args(argv) when the subcommand is a registered one:
\* the global arguments again, func set by set_defaults(func=callback), and
\* the <subcommand> argument of help.
parse_args(a, opts) ==
  [ opts EXCEPT !.func = CallbackOf(a.command), !.command = a.topic ]

NoExc == [ type |-> None, msg |-> None ]

CommandError(msg) == [ type |-> "CommandError", msg |-> msg ]

MsgUsername ==
  "You must provide a username via either --username or env[OS_USERNAME]"
MsgPassword ==
  "You must provide a password via either --password or env[OS_PASSWORD]"
MsgAuthUrl ==
  "You must provide an auth url via either --auth_url or via env[OS_AUTH_URL]"
MsgUnauthorized == "Invalid OpenStack Identity credentials."
MsgAuthorizationFailure == "Unable to authorize user"
MsgNotSubcommand == "is not a valid subcommand"

MissingCredentialMsgs == { MsgUsername, MsgPassword, MsgAuthUrl }

\* ChecksApply without the test of the unauthenticated mark.
ChecksApply_NoBypass(a) == ~ (Truthy(a.token) /\ Truthy(a.endpoint))

\* Lines 181-182: whether the presence checks of username, password and auth
\* url run for these arguments.
ChecksApply(a) ==
  /\ ~ isunauthenticated(a.func)
  /\ ~ (Truthy(a.token) /\ Truthy(a.endpoint))

\* FirstMissing with the password looked at before the username.
FirstMissing_PasswordFirst(a) ==
  IF ~ Truthy(a.password) THEN CommandError(MsgPassword)
  ELSE IF ~ Truthy(a.username) THEN CommandError(MsgUsername)
  ELSE IF ~ Truthy(a.auth_url) THEN CommandError(MsgAuthUrl)
  ELSE NoExc

\* Lines 183-193: the error of the first missing credential, NoExc when none
\* is missing.
FirstMissing(a) ==
  IF ~ Truthy(a.username) THEN CommandError(MsgUsername)
  ELSE IF ~ Truthy(a.password) THEN CommandError(MsgPassword)
  ELSE IF ~ Truthy(a.auth_url) THEN CommandError(MsgAuthUrl)
  ELSE NoExc

NoClient ==
  [ class |-> None, username |-> None, password |-> None,
    auth_url |-> None, token |-> None, endpoint |-> None ]

\* ClientFor with the token and the endpoint each handed on by itself.
ClientFor_PassThrough(a) ==
  IF isunauthenticated(a.func)
  THEN [ NoClient EXCEPT !.class = "generic", !.endpoint = a.auth_url ]
  ELSE [ class |-> "v2_0", username |-> a.username, password |-> a.password,
         auth_url |-> a.auth_url,
         token |-> IF Truthy(a.token) THEN a.token ELSE None,
         endpoint |-> IF Truthy(a.endpoint) THEN a.endpoint ELSE None ]

\* Lines 195-212: the client main() constructs, as the keyword arguments it is
\* constructed with.
ClientFor(a) ==
  IF isunauthenticated(a.func)
  THEN [ NoClient EXCEPT !.class = "generic", !.endpoint = a.auth_url ]
  ELSE LET both == Truthy(a.token) /\ Truthy(a.endpoint) IN
       [ class |-> "v2_0", username |-> a.username, password |-> a.password,
         auth_url |-> a.auth_url,
         token |-> IF both THEN a.token ELSE None,
         endpoint |-> IF both THEN a.endpoint ELSE None ]

\* What a command callback does when invoked: it returns, or it raises.
CallbackOutcomes ==
  { "return", "Unauthorized", "AuthorizationFailure", "ClientException" }

\* Lines 214-219: the exception main() raises for an outcome of the callback.
Translate(outcome) ==
  CASE outcome = "Unauthorized" -> CommandError(MsgUnauthorized)
    [] outcome = "AuthorizationFailure" -> CommandError(MsgAuthorizationFailure)
    [] outcome = "return" -> NoExc
    [] OTHER -> [ type |-> outcome, msg |-> "HTTP error" ]

NoOutput == [ kind |-> None, lines |-> <<>> ]

\* Report without the test of httplib2.debuglevel.
Report_MessageOnly(e, level) == [ kind |-> "message", lines |-> << e.msg >> ]

\* Lines 257-262: what the process writes to the error stream for an exception
\* that left OpenStackIdentityShell.main: the exception re-raised (python dumps
\* its stack) when httplib2.debuglevel is 1, its message printed otherwise.
Report(e, level) ==
  IF level = 1
  THEN [ kind |-> "traceback",
         lines |-> << "Traceback (most recent call last):",
                      "  File shell.py, in main", e.type, e.msg >> ]
  ELSE [ kind |-> "message", lines |-> << e.msg >> ]

\* do_help(args), lines 235-242: the help of a subcommand, of the program, or
\* a CommandError for an unknown subcommand.
do_help_raises(a) == Truthy(a.command) /\ a.command \notin Subcommands

do_help_prints(a) ==
  IF Truthy(a.command) THEN << "usage: keystone", a.command >>
  ELSE << "usage: keystone" >>

\* main() without the short circuit of the help command.
ShortCircuitsHelp_Never(a) == FALSE

\* Line 174: the help command is dealt with right away.
ShortCircuitsHelp(a) == a.func = "do_help"

\* Lines 170-171: httplib2.debuglevel after the global arguments are dealt with.
DebugLevelFor(opts, level) == IF opts.debug THEN 1 ELSE level

\* The state of one run of the shell.
VARIABLES argv, options, args, shell_pc, debuglevel, cs, invoked, outcome,
          checked, exc, rv, exit_status, stderr, stdout

\* The plugin namespace and what was resolved and constructed from it.
VARIABLES registry, loaded, first_result, instances

\* One plugin instance, and the session that owns it.
VARIABLES plugin_kind, auth_ref, now, exchanges, direct, prev_call,
          last_call, sess_pc, sess_token, retried, n_get_token, n_invalidate, n_issued,
          requests

\* The clients of tests/test_client.py.
VARIABLES cl, cache, new_client

shellVars == << argv, options, args, shell_pc, debuglevel, cs, invoked,
                outcome, checked, exc, rv, exit_status, stderr, stdout >>

registryVars == << registry, loaded, first_result, instances >>

pluginVars == << plugin_kind, auth_ref, now, exchanges, direct, prev_call,
                 last_call >>

sessionVars == << sess_pc, sess_token, retried, n_get_token, n_invalidate,
                  n_issued, requests >>

clientVars == << cl, cache, new_client >>

vars == << shellVars, registryVars, pluginVars, sessionVars, clientVars >>

notShell == << registryVars, pluginVars, sessionVars, clientVars >>

notRegistry == << shellVars, pluginVars, sessionVars, clientVars >>

notSession == << shellVars, registryVars, clientVars >>

notClient == << shellVars, registryVars, pluginVars, sessionVars >>

\* The shell before main() is entered.
ShellStart ==
  /\ options = Unparsed
  /\ args = Unparsed
  /\ shell_pc = "start"
  /\ debuglevel = 0
  /\ cs = NoClient
  /\ invoked = <<>>
  /\ outcome = None
  /\ checked = FALSE
  /\ exc = NoExc
  /\ rv = None
  /\ exit_status = None
  /\ stderr = NoOutput
  /\ stdout = <<>>

\* main(), lines 151-158: the first parse, of the global arguments, whose
\* defaults the environment gives.
ParseKnownArgs ==
  /\ shell_pc = "start"
  /\ \E environ \in [EnvVars -> EnvValues] :
       options' = parse_known_args(argv, environ)
  /\ shell_pc' = "known"
  /\ UNCHANGED << argv, args, debuglevel, cs, invoked, outcome, checked,
                  exc, rv, exit_status, stderr, stdout >>
  /\ UNCHANGED notShell

\* main(), lines 160-164: top-level --help/-h.  options comes from the base
\* parser and has no command attribute: do_help prints the program's help.
TopLevelHelp ==
  /\ shell_pc = "known"
  /\ options.help
  /\ invoked' = Append(invoked, "do_help")
  /\ stdout' = do_help_prints(options)
  /\ rv' = "0"
  /\ shell_pc' = "returned"
  /\ UNCHANGED << argv, options, args, debuglevel, cs, outcome, checked, exc,
                  exit_status, stderr >>
  /\ UNCHANGED notShell

\* main(), lines 166-171: the second parse, which selects the callback (argparse
\* ends the process with status 2 when the subcommand is unknown or missing),
\* and the debug flag.
ParseArgs ==
  /\ shell_pc = "known"
  /\ ~ options.help
  /\ IF argv.command \in Subcommands
     THEN /\ args' = parse_args(argv, options)
          /\ debuglevel' = DebugLevelFor(options, debuglevel)
          /\ shell_pc' = "parsed"
          /\ UNCHANGED << exit_status, stderr >>
     ELSE /\ shell_pc' = "exited"
          /\ exit_status' = "2"
          /\ stderr' = [ kind |-> "usage",
                         lines |-> << "usage: keystone", "keystone: error" >> ]
          /\ UNCHANGED << args, debuglevel >>
  /\ UNCHANGED << argv, options, cs, invoked, outcome, checked, exc, rv,
                  stdout >>
  /\ UNCHANGED notShell

\* main(), lines 173-176: the help subcommand.
HelpCommand ==
  /\ shell_pc = "parsed"
  /\ ShortCircuitsHelp(args)
  /\ invoked' = Append(invoked, "do_help")
  /\ IF do_help_raises(args)
     THEN /\ exc' = CommandError(MsgNotSubcommand)
          /\ shell_pc' = "raised"
          /\ UNCHANGED << rv, stdout >>
     ELSE /\ stdout' = do_help_prints(args)
          /\ rv' = "0"
          /\ shell_pc' = "returned"
          /\ UNCHANGED exc
  /\ UNCHANGED << argv, options, args, debuglevel, cs, outcome, checked,
                  exit_status, stderr >>
  /\ UNCHANGED notShell

\* main(), lines 181-193: the presence checks of the credentials.
CheckCredentials ==
  /\ shell_pc = "parsed"
  /\ ~ ShortCircuitsHelp(args)
  /\ checked' = ChecksApply(args)
  /\ IF ChecksApply(args) /\ FirstMissing(args) # NoExc
     THEN /\ exc' = FirstMissing(args)
          /\ shell_pc' = "raised"
     ELSE /\ shell_pc' = "checked"
          /\ UNCHANGED exc
  /\ UNCHANGED << argv, options, args, debuglevel, cs, invoked, outcome, rv,
                  exit_status, stderr, stdout >>
  /\ UNCHANGED notShell

\* main(), lines 195-212: the client.
BuildClient ==
  /\ shell_pc = "checked"
  /\ cs' = ClientFor(args)
  /\ shell_pc' = "built"
  /\ UNCHANGED << argv, options, args, debuglevel, invoked, outcome, checked,
                  exc, rv, exit_status, stderr, stdout >>
  /\ UNCHANGED notShell

\* main(), lines 214-219: the callback, called with the client.
InvokeCallback ==
  /\ shell_pc = "built"
  /\ invoked' = Append(invoked, args.func)
  /\ \E o \in CallbackOutcomes :
       /\ outcome' = o
       /\ exc' = Translate(o)
       /\ shell_pc' = IF o = "return" THEN "returned" ELSE "raised"
  /\ UNCHANGED << argv, options, args, debuglevel, cs, checked, rv,
                  exit_status, stderr, stdout >>
  /\ UNCHANGED notShell

\* The module's main(), lines 253-262: the end of the process.  An exception
\* that leaves it unhandled ends the interpreter with status 1, as
\* sys.exit(1) does.
ProcessExit ==
  /\ shell_pc \in { "returned", "raised" }
  /\ IF shell_pc = "raised"
     THEN /\ stderr' = Report(exc, debuglevel)
          /\ exit_status' = "1"
     ELSE /\ exit_status' = "0"
          /\ UNCHANGED stderr
  /\ shell_pc' = "exited"
  /\ UNCHANGED << argv, options, args, debuglevel, cs, invoked, outcome,
                  checked, exc, rv, stdout >>
  /\ UNCHANGED notShell

ShellNext ==
  \/ ParseKnownArgs
  \/ TopLevelHelp
  \/ ParseArgs
  \/ HelpCommand
  \/ CheckCredentials
  \/ BuildClient
  \/ InvokeCallback
  \/ ProcessExit

(***************************************************************************)
(* keystoneclient/auth/base.py: the plugin namespace                       *)
(***************************************************************************)

\* Bounds of the model: calls of get_plugin_class and plugins constructed in
\* one behaviour.
MaxResolves == 3
MaxInstances == 2

\* The names a caller may ask for and the plugin classes entry points name.
PluginNames == { "password", "token", "v3unknown" }
PluginClasses == { "Password", "Token" }

\* The entry points of PLUGIN_NAMESPACE: a plugin class for each registered
\* name.
Registries == UNION { [D -> PluginClasses] : D \in SUBSET PluginNames }

\* The manager asked to construct the plugin as it loads it.
invoke_on_load_True == TRUE

\* Line 35: get_plugin_class asks for the plugin, not for an object of it.
invoke_on_load == FALSE

\* stevedore.DriverManager(namespace, name, invoke_on_load): RuntimeError when
\* no entry point has the name; its driver is the plugin the entry point names
\* or, with invoke_on_load, an object constructed from it.
DriverManager(reg, name, invoke) ==
  IF name \notin DOMAIN reg
  THEN [ raised |-> "RuntimeError", driver |-> None, kind |-> None,
         constructed |-> <<>> ]
  ELSE [ raised |-> None, driver |-> reg[name],
         kind |-> IF invoke THEN "object" ELSE "class",
         constructed |-> IF invoke THEN << reg[name] >> ELSE <<>> ]

\* Lines 36-38: the RuntimeError of the manager becomes NoMatchingPlugin.
ErrorFor(raised) == "NoMatchingPlugin"

\* get_plugin_class(name), lines 23-40: what the call raises or returns, and
\* the objects constructed on the way.
get_plugin_class(reg, name) ==
  LET mgr == DriverManager(reg, name, invoke_on_load) IN
  IF mgr.raised = "RuntimeError"
  THEN [ name |-> name, raised |-> ErrorFor(mgr.raised), value |-> None,
         kind |-> None, constructed |-> mgr.constructed ]
  ELSE [ name |-> name, raised |-> None, value |-> mgr.driver,
         kind |-> mgr.kind, constructed |-> mgr.constructed ]

NotLoaded ==
  [ seq |-> 0, name |-> None, raised |-> None, value |-> None, kind |-> None ]

\* The outcome of a call as the caller sees it.
Seen(r, n) ==
  [ seq |-> n, name |-> r.name, raised |-> r.raised, value |-> r.value,
    kind |-> r.kind ]

RegistryStart ==
  /\ loaded = NotLoaded
  /\ first_result = << >>
  /\ instances = <<>>

\* A caller resolves a plugin name.
GetPluginClass ==
  /\ loaded.seq < MaxResolves
  /\ \E name \in PluginNames :
       LET r == get_plugin_class(registry, name) IN
       /\ loaded' = Seen(r, loaded.seq + 1)
       /\ instances' = instances \o r.constructed
       /\ first_result' =
            IF name \in DOMAIN first_result THEN first_result
            ELSE [ n \in DOMAIN first_result \cup { name } |->
                     IF n = name THEN [ raised |-> r.raised, value |-> r.value,
                                        kind |-> r.kind ]
                     ELSE first_result[n] ]
  /\ UNCHANGED registry
  /\ UNCHANGED notRegistry

\* BaseAuthPlugin.load_from_options, lines 110-118, on the class the last call
\* returned: cls(**kwargs).
LoadFromOptions ==
  /\ loaded.raised = None
  /\ loaded.kind = "class"
  /\ Len(instances) < MaxInstances
  /\ instances' = Append(instances, loaded.value)
  /\ UNCHANGED << registry, loaded, first_result >>
  /\ UNCHANGED notRegistry

RegistryNext ==
  \/ GetPluginClass
  \/ LoadFromOptions

(***************************************************************************)
(* keystoneclient/auth/base.py: one plugin instance                        *)
(***************************************************************************)

\* Bounds of the model: logical requests of the session, calls made on the
\* plugin by other callers, and ticks of the clock.
MaxRequests == 2
MaxDirect == 2
MaxTime == 2
\* A bound no request of the session comes to: the times it is issued.
MaxSends == 3

\* get_token: "Returning None will indicate that no token was able to be
\* retrieved."  Tokens are numbered; the number of None is 0.
NoToken == 0

\* The plugins of the model.  "static" overrides get_token alone and hands out
\* the token it was given; "caching" keeps the AuthReference of its last
\* exchange; "arbitrary" answers anything at all.
PluginKinds == { "static", "caching", "arbitrary" }

\* No cached AuthReference.
NoRef == [ token |-> NoToken, expiring |-> FALSE, expires |-> 0 ]

\* Whether a cached AuthReference can still be used at time t: a reference
\* without an expiration does not expire.
RefValid(ref, t) ==
  /\ ref # NoRef
  /\ (ref.expiring => t < ref.expires)

\* The AuthReferences an exchange made at time t may produce for the n-th
\* token.
ExchangedRefs(n, t) ==
  { [ token |-> n, expiring |-> e, expires |-> IF e THEN t + 1 ELSE 0 ] :
      e \in BOOLEAN }

\* A plugin that never answers from its cache.
GetTokenCached_Never(ref, t) == FALSE

\* Whether get_token of the caching plugin answers from its cache.
GetTokenCached(ref, t) == RefValid(ref, t)

\* get_token(session): every way the call may end, as the token returned (or
\* the error raised), whether a network exchange was made, and the plugin's
\* cached reference afterwards.
get_token(kind, ref, t, n) ==
  CASE kind = "static" ->
         { [ token |-> 1, raised |-> None, exchanged |-> FALSE, ref |-> ref ] }
    [] kind = "caching" ->
         IF GetTokenCached(ref, t)
         THEN { [ token |-> ref.token, raised |-> None, exchanged |-> FALSE,
                  ref |-> ref ] }
         ELSE { [ token |-> r.token, raised |-> None, exchanged |-> TRUE,
                  ref |-> r ] : r \in ExchangedRefs(n, t) }
              \cup
              { [ token |-> NoToken, raised |-> "AuthenticationRejected",
                  exchanged |-> TRUE, ref |-> NoRef ] }
    [] kind = "arbitrary" ->
         { [ token |-> k, raised |-> None, exchanged |-> FALSE, ref |-> ref ] :
             k \in { NoToken, 1 } }

\* An invalidate that claims to have invalidated something.
BaseAuthPlugin_invalidate_True(ref) == [ ret |-> TRUE, ref |-> ref ]

\* BaseAuthPlugin.invalidate, lines 84-97: return False.
BaseAuthPlugin_invalidate(ref) == [ ret |-> FALSE, ref |-> ref ]

\* invalidate() of the caching plugin: the cached reference is discarded, and
\* the answer is whether there was one.
CachingInvalidate(ref) == [ ret |-> ref # NoRef, ref |-> NoRef ]

\* invalidate(): every way the call may end.  The static plugin inherits
\* BaseAuthPlugin.invalidate.
invalidate(kind, ref) ==
  CASE kind = "static" -> { BaseAuthPlugin_invalidate(ref) }
    [] kind = "caching" -> { CachingInvalidate(ref) }
    [] kind = "arbitrary" -> { [ ret |-> b, ref |-> ref ] : b \in BOOLEAN }

NoCall ==
  [ op |-> None, token |-> NoToken, raised |-> None, ret |-> FALSE,
    exchanged |-> FALSE, at |-> 0, ref |-> NoRef ]

\* The record of a call of get_token that ended as r, and of a call of
\* invalidate that ended as r.
GetTokenCall(r, t) ==
  [ op |-> "get_token", token |-> r.token, raised |-> r.raised, ret |-> FALSE,
    exchanged |-> r.exchanged, at |-> t, ref |-> r.ref ]

InvalidateCall(r, t) ==
  [ op |-> "invalidate", token |-> NoToken, raised |-> None, ret |-> r.ret,
    exchanged |-> FALSE, at |-> t, ref |-> r.ref ]

PluginStart ==
  /\ auth_ref = NoRef
  /\ now = 0
  /\ exchanges = 0
  /\ direct = 0
  /\ prev_call = NoCall
  /\ last_call = NoCall

\* The effect on the plugin of a call of get_token that ends as r.
DoGetToken(r) ==
  /\ auth_ref' = r.ref
  /\ exchanges' = IF r.exchanged THEN exchanges + 1 ELSE exchanges
  /\ prev_call' = last_call
  /\ last_call' = GetTokenCall(r, now)
  /\ UNCHANGED << plugin_kind, now >>

\* The effect on the plugin of a call of invalidate that ends as r.
DoInvalidate(r) ==
  /\ auth_ref' = r.ref
  /\ prev_call' = last_call
  /\ last_call' = InvalidateCall(r, now)
  /\ UNCHANGED << plugin_kind, now, exchanges >>

\* Another caller of the plugin (not the session) asks it for a token.
PluginGetToken ==
  /\ direct < MaxDirect
  /\ sess_pc \notin { "Unauthenticated", "Authenticated", "Unauthorized" }
  /\ \E r \in get_token(plugin_kind, auth_ref, now, exchanges + 1) :
       DoGetToken(r)
  /\ direct' = direct + 1
  /\ UNCHANGED sessionVars
  /\ UNCHANGED notSession

\* Another caller of the plugin invalidates it.
PluginInvalidate ==
  /\ direct < MaxDirect
  /\ sess_pc \notin { "Unauthenticated", "Authenticated", "Unauthorized" }
  /\ \E r \in invalidate(plugin_kind, auth_ref) : DoInvalidate(r)
  /\ direct' = direct + 1
  /\ UNCHANGED sessionVars
  /\ UNCHANGED notSession

\* Time passes.
Tick ==
  /\ now < MaxTime
  /\ now' = now + 1
  /\ UNCHANGED << plugin_kind, auth_ref, exchanges, direct, prev_call,
                  last_call >>
  /\ UNCHANGED sessionVars
  /\ UNCHANGED notSession

(***************************************************************************)
(* The session: one authenticated request at a time                        *)
(***************************************************************************)

\* The states a request ends in.
Terminal ==
  { "Completed", "Unauthenticatable", "AuthenticationRejected",
    "AuthorizationFailed", "TransportError" }

\* What the service answers to a request that carries a token.
Responses == { "ok", "unauthorized", "timeout" }

SessionStart ==
  /\ sess_pc = "idle"
  /\ sess_token = NoToken
  /\ retried = FALSE
  /\ n_get_token = 0
  /\ n_invalidate = 0
  /\ n_issued = 0
  /\ requests = 0

\* A caller asks the session for an authenticated request.
BeginRequest ==
  /\ sess_pc \in Terminal \cup { "idle" }
  /\ requests < MaxRequests
  /\ requests' = requests + 1
  /\ sess_pc' = "Unauthenticated"
  /\ sess_token' = NoToken
  /\ retried' = FALSE
  /\ n_get_token' = 0
  /\ n_invalidate' = 0
  /\ n_issued' = 0
  /\ UNCHANGED pluginVars
  /\ UNCHANGED notSession

\* Step 2: the session asks the plugin for a token.  None ends the request,
\* and so does an error of the exchange, which is passed on.
SessionGetToken ==
  /\ sess_pc = "Unauthenticated"
  /\ n_get_token' = n_get_token + 1
  /\ \E r \in get_token(plugin_kind, auth_ref, now, exchanges + 1) :
       /\ DoGetToken(r)
       /\ sess_token' = r.token
       /\ sess_pc' = IF r.raised # None THEN "AuthenticationRejected"
                     ELSE IF r.token = NoToken THEN "Unauthenticatable"
                     ELSE "Authenticated"
  /\ UNCHANGED << direct, retried, n_invalidate, n_issued, requests >>
  /\ UNCHANGED notSession

\* Steps 3 and 5: the request is issued with the token attached.
SessionSend ==
  /\ sess_pc = "Authenticated"
  /\ n_issued < MaxSends
  /\ n_issued' = n_issued + 1
  /\ \E resp \in Responses :
       sess_pc' = CASE resp = "ok" -> "Completed"
                    [] resp = "unauthorized" -> "Unauthorized"
                    [] resp = "timeout" -> "TransportError"
  /\ UNCHANGED << sess_token, retried, n_get_token, n_invalidate, requests >>
  /\ UNCHANGED pluginVars
  /\ UNCHANGED notSession

\* A session that retries without counting.
MayRetry_Always(r) == TRUE

\* The bounded counter of step 4: a request is retried once.
MayRetry(r) == ~ r

\* Step 4: the answer was unauthorized.  The plugin is invalidated, and the
\* request goes back to step 2 when that returns true, unless it is already
\* the retry.
SessionUnauthorized ==
  /\ sess_pc = "Unauthorized"
  /\ IF MayRetry(retried)
     THEN /\ n_invalidate' = n_invalidate + 1
          /\ \E r \in invalidate(plugin_kind, auth_ref) :
               /\ DoInvalidate(r)
               /\ retried' = r.ret
               /\ sess_pc' = IF r.ret THEN "Unauthenticated"
                             ELSE "AuthorizationFailed"
     ELSE /\ sess_pc' = "AuthorizationFailed"
          /\ UNCHANGED << n_invalidate, retried >>
          /\ UNCHANGED << plugin_kind, auth_ref, now, exchanges, prev_call,
                          last_call >>
  /\ UNCHANGED << direct, sess_token, n_get_token, n_issued, requests >>
  /\ UNCHANGED notSession

SessionStep ==
  \/ SessionGetToken
  \/ SessionSend
  \/ SessionUnauthorized

SessionNext ==
  \/ BeginRequest
  \/ SessionStep
  \/ PluginGetToken
  \/ PluginInvalidate
  \/ Tick

(***************************************************************************)
(* tests/test_client.py: a client restored from a cached AuthReference     *)
(***************************************************************************)

\* The fields of an AuthReference, in the order they are written.
RefKeys == << "adminURL", "expires", "id", "tenant", "username" >>

Usernames == { "exampleuser", "admin" }
Passwords == { "password", "secret" }

\* The AuthReferences a successful exchange may produce for a user: a token,
\* with or without an expiration, bound to a tenant or not, with or without a
\* management endpoint.
AuthRefsFor(username) ==
  { [ id |-> i, username |-> username, expires |-> e,
      tenant |-> t, adminURL |-> u ] :
      i \in { "0123456789", "abcdef" },
      e \in { None, "2038-01-18T21:14:07Z" },
      t \in { None, "exampleproject" },
      u \in { None, "http://admin:35357/v2.0" } }

\* auth_ref.scoped: the token is bound to a tenant.
scoped(ref) == ref.tenant # None

\* None written as the text of str(None).
Encode_NoneAsText(key, value) ==
  [ key |-> key, kind |-> "string",
    text |-> IF value = None THEN "None" ELSE value ]

\* One member of a JSON object: None is written null, a string is written
\* quoted.
Encode(key, value) ==
  IF value = None THEN [ key |-> key, kind |-> "null", text |-> "null" ]
  ELSE [ key |-> key, kind |-> "string", text |-> value ]

\* What a member of a JSON object reads back as.
Decode(member) == IF member.kind = "null" THEN None ELSE member.text

\* json.dumps(auth_ref), line 30: the members of the object, one after another.
json_dumps(ref) == [ i \in 1..Len(RefKeys) |-> Encode(RefKeys[i], ref[RefKeys[i]]) ]

\* json.loads(cache), line 31: the object with the members of the text.
json_loads(text) ==
  [ k \in { text[i].key : i \in DOMAIN text } |->
      Decode(text[CHOOSE i \in DOMAIN text : text[i].key = k]) ]

NoSuchClient ==
  [ made |-> FALSE, username |-> None, password |-> None, auth_url |-> None,
    management_url |-> None, auth_ref |-> << >> ]

\* client.Client(username=..., password=..., auth_url=...), lines 19-21 and
\* 27-29: the client authenticates, and keeps the AuthReference of the
\* exchange.
ClientFromCredentials(username, password, auth_url, ref) ==
  [ made |-> TRUE, username |-> username, password |-> password,
    auth_url |-> auth_url, management_url |-> ref.adminURL, auth_ref |-> ref ]

\* client.Client(auth_ref=...), line 31: the client takes what it needs from
\* the AuthReference, and has no password.
ClientFromAuthRef(ref) ==
  [ made |-> TRUE, username |-> ref.username, password |-> None,
    auth_url |-> None, management_url |-> ref.adminURL, auth_ref |-> ref ]

ClientStart ==
  /\ cl = NoSuchClient
  /\ cache = << >>
  /\ new_client = NoSuchClient

\* Lines 26-29: a client is made from credentials; the exchange succeeds.
NewClient ==
  /\ ~ cl.made
  /\ \E u \in Usernames, pw \in Passwords :
       \E ref \in AuthRefsFor(u) :
         cl' = ClientFromCredentials(u, pw, "http://somewhere/", ref)
  /\ UNCHANGED << cache, new_client >>
  /\ UNCHANGED notClient

\* Line 30: the AuthReference is written out.
DumpAuthRef ==
  /\ cl.made
  /\ cache = << >>
  /\ cache' = json_dumps(cl.auth_ref)
  /\ UNCHANGED << cl, new_client >>
  /\ UNCHANGED notClient

\* Line 31: a second client is made from the text alone.
LoadAuthRef ==
  /\ cache # << >>
  /\ ~ new_client.made
  /\ new_client' = ClientFromAuthRef(json_loads(cache))
  /\ UNCHANGED << cl, cache >>
  /\ UNCHANGED notClient

ClientNext ==
  \/ NewClient
  \/ DumpAuthRef
  \/ LoadAuthRef

(***************************************************************************)
(* Specifications                                                          *)
(***************************************************************************)

\* Each specification runs one part of the program; the other parts stay as
\* they start.
ShellIdle ==
  /\ argv = [ help |-> FALSE, debug |-> FALSE, username |-> None,
              password |-> None, auth_url |-> None, token |-> None,
              endpoint |-> None, command |-> None, topic |-> None ]
  /\ ShellStart

RegistryIdle == registry = << >> /\ RegistryStart

SessionIdle == plugin_kind = "static" /\ PluginStart /\ SessionStart

ClientIdle == ClientStart

ShellInit ==
  /\ argv \in Argvs
  /\ ShellStart
  /\ RegistryIdle /\ SessionIdle /\ ClientIdle

RegistryInit ==
  /\ registry \in Registries
  /\ RegistryStart
  /\ ShellIdle /\ SessionIdle /\ ClientIdle

SessionInit ==
  /\ plugin_kind \in PluginKinds
  /\ PluginStart
  /\ SessionStart
  /\ ShellIdle /\ RegistryIdle /\ ClientIdle

ClientInit ==
  /\ ClientStart
  /\ ShellIdle /\ RegistryIdle /\ SessionIdle

ShellSpec == ShellInit /\ [][ShellNext]_vars

RegistrySpec == RegistryInit /\ [][RegistryNext]_vars

\* A request the session has begun is carried through: its steps are one call
\* of the session, which no other caller interrupts.
SessionSpec == SessionInit /\ [][SessionNext]_vars /\ WF_vars(SessionStep)

ClientSpec == ClientInit /\ [][ClientNext]_vars

(***************************************************************************)
(* Properties                                                              *)
(***************************************************************************)

InFlight == sess_pc \in { "Unauthenticated", "Authenticated", "Unauthorized" }

\* C1: for every request of the session, whatever the plugin answers, the
\* plugin is invalidated at most once and the request is issued at most twice;
\* the request reaches a terminal state; and a retry that is answered
\* unauthorized ends in AuthorizationFailed with no further call of
\* invalidate.
C1_RetryBound ==
  /\ [](n_invalidate <= 1 /\ n_issued <= 2)
  /\ \A k \in 1..MaxRequests :
       (InFlight /\ requests = k) ~> (sess_pc \in Terminal /\ requests = k)
  /\ \A k \in 1..MaxRequests :
       (sess_pc = "Unauthorized" /\ n_issued = 2 /\ requests = k)
         ~> (/\ sess_pc = "AuthorizationFailed" /\ requests = k
             /\ n_invalidate = 1 /\ n_issued = 2)

\* A plugin that answers anything was invalidated once, the request was
\* issued twice, and the request ended in AuthorizationFailed.
C1_Witness ==
  /\ plugin_kind = "arbitrary"
  /\ sess_pc = "AuthorizationFailed"
  /\ retried
  /\ n_invalidate = 1
  /\ n_issued = 2
  /\ n_get_token = 2

\* C2: invalidate() of a plugin that holds no cached reference returns false
\* and leaves the plugin as it was (BaseAuthPlugin.invalidate does so on every
\* call); and a request whose invalidate() returned false ends in
\* AuthorizationFailed after one call of get_token and one issue.
C2_InvalidateWithoutState ==
  /\ (/\ last_call.op = "invalidate"
      /\ plugin_kind \in { "static", "caching" }
      /\ prev_call.ref = NoRef)
       => (~ last_call.ret /\ last_call.ref = NoRef /\ auth_ref = NoRef)
  /\ (last_call.op = "invalidate" /\ plugin_kind = "static")
       => (~ last_call.ret /\ last_call.ref = prev_call.ref)
  /\ (n_invalidate = 1 /\ ~ retried)
       => (/\ sess_pc = "AuthorizationFailed"
           /\ n_get_token = 1
           /\ n_issued = 1)

\* The session invalidated a plugin that inherits BaseAuthPlugin.invalidate:
\* the request failed without a retry.
C2_Witness ==
  /\ plugin_kind = "static"
  /\ sess_pc = "AuthorizationFailed"
  /\ last_call.op = "invalidate"
  /\ ~ last_call.ret
  /\ n_invalidate = 1
  /\ n_get_token = 1
  /\ n_issued = 1

C6_PluginResolution ==
  [][ loaded'.seq # loaded.seq =>
        /\ registry' = registry
        /\ instances' = instances
        /\ (loaded'.name \in DOMAIN registry =>
              /\ loaded'.raised = None
              /\ loaded'.kind = "class"
              /\ loaded'.value = registry[loaded'.name])
        /\ (loaded'.name \notin DOMAIN registry =>
              /\ loaded'.raised = "NoMatchingPlugin"
              /\ loaded'.value = None)
        /\ (loaded'.name \in DOMAIN first_result =>
              /\ loaded'.raised = first_result[loaded'.name].raised
              /\ loaded'.value = first_result[loaded'.name].value
              /\ loaded'.kind = first_result[loaded'.name].kind) ]_vars

\* A registered name was resolved twice, with the class as the result, and
\* nothing was constructed.
C6_Witness ==
  /\ loaded.seq = 2
  /\ DOMAIN first_result = { "password" }
  /\ loaded.name = "password"
  /\ loaded.raised = None
  /\ loaded.value = registry["password"]
  /\ instances = <<>>

AuthenticatedCommandChecked ==
  /\ args.parsed
  /\ args.func \notin { None, "do_help" }
  /\ ~ isunauthenticated(args.func)
  /\ shell_pc # "parsed"

SomeCredentialMissing ==
  ~ Truthy(args.username) \/ ~ Truthy(args.password) \/ ~ Truthy(args.auth_url)

\* The message that names the first of username, password and auth url that
\* is absent or empty.
FirstMissingMsg ==
  IF ~ Truthy(args.username) THEN MsgUsername
  ELSE IF ~ Truthy(args.password) THEN MsgPassword
  ELSE MsgAuthUrl

FailedBeforeClient ==
  /\ exc = CommandError(FirstMissingMsg)
  /\ shell_pc \in { "raised", "exited" }
  /\ cs = NoClient
  /\ invoked = <<>>
  /\ outcome = None

\* C3, as stated: every invocation of a command that requires authentication
\* with a credential missing fails with the CommandError of the first missing
\* one, before a client is constructed and before the callback is invoked.
C3_Original ==
  (AuthenticatedCommandChecked /\ SomeCredentialMissing) => FailedBeforeClient

\* C3, amended: the same, for the invocations that do not give both a token
\* and an endpoint.
C3_CredentialGating ==
  (/\ AuthenticatedCommandChecked
   /\ SomeCredentialMissing
   /\ ~ (Truthy(args.token) /\ Truthy(args.endpoint)))
    => FailedBeforeClient

\* The username is given and the password is empty: main() raised the error
\* of the password, with no client and no callback.
C3_Witness ==
  /\ AuthenticatedCommandChecked
  /\ Truthy(args.username)
  /\ args.password = ""
  /\ exc = CommandError(MsgPassword)
  /\ shell_pc = "raised"
  /\ cs = NoClient
  /\ invoked = <<>>

\* C4: when the callback main() selected is marked unauthenticated, no
\* missing-credential error is raised and the presence checks do not run; the
\* client is the generic one, constructed with the auth url as its endpoint
\* and nothing else; and the callback is what main() invokes, once the client
\* is there.
C4_UnauthenticatedBypass ==
  (args.parsed /\ isunauthenticated(args.func)) =>
    /\ exc.msg \notin MissingCredentialMsgs
    /\ ~ checked
    /\ shell_pc \in { "parsed", "checked", "built", "returned", "raised",
                      "exited" }
    /\ (shell_pc \in { "parsed", "checked" } => cs = NoClient /\ invoked = <<>>)
    /\ (shell_pc \in { "built", "returned", "raised", "exited" } =>
          cs = [ class |-> "generic", username |-> None, password |-> None,
                 auth_url |-> None, token |-> None,
                 endpoint |-> args.auth_url ])
    /\ (shell_pc = "built" => invoked = <<>>)
    /\ (shell_pc \in { "returned", "raised", "exited" } =>
          invoked = << args.func >>)

\* An unauthenticated command ran with no credential at all.
C4_Witness ==
  /\ args.parsed
  /\ isunauthenticated(args.func)
  /\ ~ Truthy(args.username) /\ ~ Truthy(args.password)
  /\ ~ Truthy(args.auth_url) /\ ~ Truthy(args.token)
  /\ ~ Truthy(args.endpoint)
  /\ cs.class = "generic"
  /\ invoked = << "do_discover" >>
  /\ outcome = "return"
  /\ exit_status = "0"

\* main() is past a path of help: the flag, or the help subcommand.
HelpPathTaken ==
  /\ options.parsed
  /\ (options.help \/ args.func = "do_help")
  /\ shell_pc \in { "returned", "raised", "exited" }

\* On a path of help the presence checks have not run, no client is
\* constructed, no missing-credential error is raised and do_help alone is
\* called.
HelpWithoutAuthentication ==
  /\ ~ checked
  /\ cs = NoClient
  /\ exc.msg \notin MissingCredentialMsgs
  /\ invoked = << "do_help" >>
  /\ outcome = None

HelpPrintedAndReturned ==
  /\ exc = NoExc
  /\ rv = "0"
  /\ stdout # <<>>
  /\ (shell_pc = "exited" => exit_status = "0")

\* C5, as stated: on every path of help main() prints usage and returns 0.
C5_Original ==
  HelpPathTaken => (HelpWithoutAuthentication /\ HelpPrintedAndReturned)

\* C5, amended: the same, but the help subcommand given a name that is no
\* subcommand raises the CommandError of do_help instead of printing and
\* returning 0.
C5_HelpWithoutAuthentication ==
  HelpPathTaken =>
    /\ HelpWithoutAuthentication
    /\ IF ~ options.help /\ Truthy(args.command)
          /\ args.command \notin Subcommands
       THEN /\ exc = CommandError(MsgNotSubcommand)
            /\ rv = None
            /\ stdout = <<>>
            /\ (shell_pc = "exited" => exit_status = "1")
       ELSE HelpPrintedAndReturned

\* The help subcommand ran to the end with no credential at all.
C5_Witness ==
  /\ args.func = "do_help"
  /\ ~ Truthy(args.username) /\ ~ Truthy(args.password)
  /\ ~ Truthy(args.auth_url) /\ ~ Truthy(args.token)
  /\ ~ Truthy(args.endpoint)
  /\ invoked = << "do_help" >>
  /\ rv = "0"
  /\ exit_status = "0"

\* The failures C8 is about: a credential found missing, and an Unauthorized
\* or AuthorizationFailure of the callback.
AuthFailureMsgs ==
  MissingCredentialMsgs \cup { MsgUnauthorized, MsgAuthorizationFailure }

\* C8: an Unauthorized or AuthorizationFailure of the callback leaves main()
\* as a CommandError; and a run that fails on a missing credential or on such
\* an error ends with a status that is not 0 and, without the debug flag,
\* the message alone on the error stream, one line; with the debug flag, the
\* exception itself, stack and all.
C8_ExitContract ==
  /\ (outcome = "Unauthorized" => exc = CommandError(MsgUnauthorized))
  /\ (outcome = "AuthorizationFailure" =>
        exc = CommandError(MsgAuthorizationFailure))
  /\ (exc.msg \in AuthFailureMsgs => exc.type = "CommandError")
  /\ (shell_pc = "exited" /\ exc.msg \in AuthFailureMsgs) =>
       /\ exit_status \notin { None, "0" }
       /\ IF args.debug
          THEN /\ stderr.kind = "traceback"
               /\ Len(stderr.lines) > 1
               /\ \E i \in DOMAIN stderr.lines : stderr.lines[i] = exc.type
               /\ \E i \in DOMAIN stderr.lines : stderr.lines[i] = exc.msg
          ELSE stderr = [ kind |-> "message", lines |-> << exc.msg >> ]

\* A run without the debug flag failed on the callback's Unauthorized: the
\* status is 1 and the message is the one line of the error stream.
C8_Witness ==
  /\ shell_pc = "exited"
  /\ ~ args.debug
  /\ outcome = "Unauthorized"
  /\ exit_status = "1"
  /\ stderr.lines = << MsgUnauthorized >>

\* C10: for a command that requires authentication the presence checks run
\* unless both a token and an endpoint are given; the client gets that token
\* and that endpoint when both are given, and None for both otherwise, after
\* the checks have passed.
C10_TokenEndpointPairing ==
  AuthenticatedCommandChecked =>
    LET both == Truthy(args.token) /\ Truthy(args.endpoint) IN
    /\ checked = ~ both
    /\ (both => exc.msg \notin MissingCredentialMsgs)
    /\ (shell_pc \in { "built", "returned" } \/ invoked # <<>>) =>
         /\ cs.class = "v2_0"
         /\ cs.token = (IF both THEN args.token ELSE None)
         /\ cs.endpoint = (IF both THEN args.endpoint ELSE None)
         /\ (~ both => ~ SomeCredentialMissing)
    /\ (cs # NoClient => (cs.token = None <=> cs.endpoint = None))

\* A token is given without an endpoint: the checks ran and passed, and the
\* client got neither.
C10_Witness ==
  /\ AuthenticatedCommandChecked
  /\ Truthy(args.token)
  /\ ~ Truthy(args.endpoint)
  /\ checked
  /\ cs.class = "v2_0"
  /\ cs.token = None
  /\ cs.endpoint = None
  /\ invoked = << "do_user_list" >>

====
